---- MODULE Spec2Model ----
(***************************************************************************)
(* Excluded shipping methods resolved through synchronous webhooks, with   *)
(* a payload-fingerprinted cache: saleor/plugins/webhook/shipping.py.      *)
(*                                                                         *)
(* Python values are modelled as follows.                                  *)
(*   str        a sequence of atoms, "" being <<>>; " ".join and          *)
(*              str.split work on these sequences                          *)
(*   Optional   None is <<>>, a present value v is <<v>>                   *)
(*   dict (ordered, as defaultdict(list))                                  *)
(*              a sequence of [id, methods] records in insertion order     *)
(*   JSON       records tagged with the kind of the value                  *)
(* All claims concern calls that share one cache_key, so `cache` is the   *)
(* slot of the cache store under that key.                                 *)
(***************************************************************************)
EXTENDS Integers, Sequences, FiniteSets, TLC

\* Bounds of the model.
NumCalls == 2
MaxEntries == 3
MaxWebhooks == 2
NumPayloads == 2
MaxPrevious == 2

Calls == 1..NumCalls
EventTypes == 0..MaxWebhooks
Payloads == 1..NumPayloads

None == <<>>
Some(v) == <<v>>

-----------------------------------------------------------------------------
(* The global-id codec and the app id of a shipping method.                *)

b64encode(s) == <<"b64<">> \o s \o <<">">>

IsBase64(s) == Len(s) >= 2 /\ s[1] = "b64<" /\ s[Len(s)] = ">"

unbase64(s) == SubSeq(s, 2, Len(s) - 1)

to_global_id(typename, id) == b64encode(<<typename, ":">> \o id)

to_shipping_app_id(app, shipping_method_id) ==
    b64encode(<<"app", ":", app, ":">> \o shipping_method_id)

\* graphene.Node.from_global_id: unbase64, then split(":", 1); ok is FALSE
\* where the codec raises (ValueError).
from_global_id(global_id) ==
    LET bad == [ok |-> FALSE, typename |-> <<>>, id |-> <<>>]
    IN  IF ~IsBase64(global_id) THEN bad
        ELSE LET u == unbase64(global_id)
                 colons == {i \in DOMAIN u : u[i] = ":"}
             IN  IF colons = {} THEN bad
                 ELSE LET i == CHOOSE k \in colons : \A j \in colons : k <= j
                      IN  [ok |-> TRUE,
                           typename |-> SubSeq(u, 1, i - 1),
                           id |-> SubSeq(u, i + 1, Len(u))]

-----------------------------------------------------------------------------
(* get_excluded_shipping_methods_from_response                             *)

NoMethod == [id |-> <<>>, reason |-> None]

\* method_data.get("reason", "")
get_reason(method_data) ==
    CASE method_data.reason.kind = "absent" -> Some(<<>>)
      [] method_data.reason.kind = "null" -> None
      [] OTHER -> Some(method_data.reason.val)

\* The id the type tag selects; keep is FALSE on the `continue` branch.
dispatch_typename_wrong_arm(raw_id, typename, _id) ==
    CASE typename = <<"app">> -> [keep |-> TRUE, method_id |-> _id]
      [] typename = <<"ShippingMethod">> -> [keep |-> TRUE, method_id |-> raw_id]
      [] OTHER -> [keep |-> FALSE, method_id |-> <<>>]

dispatch_typename(raw_id, typename, _id) ==
    CASE typename = <<"app">> -> [keep |-> TRUE, method_id |-> raw_id]
      [] typename = <<"ShippingMethod">> -> [keep |-> TRUE, method_id |-> _id]
      [] OTHER -> [keep |-> FALSE, method_id |-> <<>>]

\* One iteration of the loop body: ok is FALSE where the entry is skipped
\* (the `continue` of the else branch or of the except clause).
parse_method_data(method_data) ==
    LET skip == [ok |-> FALSE, method |-> NoMethod]
    IN  IF ~method_data.obj THEN skip                    \* TypeError
        ELSE IF method_data.id.kind = "absent" THEN skip \* KeyError
        ELSE IF method_data.id.kind # "str" THEN skip    \* TypeError
        ELSE LET raw_id == method_data.id.val
                 g == from_global_id(raw_id)
             IN  IF ~g.ok THEN skip                      \* ValueError
                 ELSE LET d == dispatch_typename(raw_id, g.typename, g.id)
                      IN  IF ~d.keep THEN skip
                          ELSE [ok |-> TRUE,
                                method |-> [id |-> d.method_id,
                                            reason |-> get_reason(method_data)]]

\* The loop with the try statement around it: the first skipped entry ends
\* the batch.
RECURSIVE from_response_loop_try_outside(_, _, _)
from_response_loop_try_outside(items, i, excluded_methods) ==
    IF i > Len(items) THEN excluded_methods
    ELSE LET r == parse_method_data(items[i])
         IN  IF r.ok
             THEN from_response_loop_try_outside(items, i + 1,
                      Append(excluded_methods, r.method))
             ELSE excluded_methods

RECURSIVE from_response_loop(_, _, _)
from_response_loop(items, i, excluded_methods) ==
    IF i > Len(items) THEN excluded_methods
    ELSE LET r == parse_method_data(items[i])
         IN  from_response_loop(items, i + 1,
                 IF r.ok THEN Append(excluded_methods, r.method)
                 ELSE excluded_methods)

\* raised is TRUE where an exception leaves the function: response_data has
\* no .get (AttributeError), or "excluded_methods" is not iterable (TypeError
\* raised by the for statement, outside the try block).
get_excluded_shipping_methods_from_response(response_data) ==
    IF response_data.kind # "object"
    THEN [raised |-> TRUE, value |-> <<>>]
    ELSE CASE response_data.em.kind = "absent" -> [raised |-> FALSE, value |-> <<>>]
           [] response_data.em.kind = "null" -> [raised |-> TRUE, value |-> <<>>]
           [] OTHER -> [raised |-> FALSE,
                        value |-> from_response_loop(response_data.em.items, 1, <<>>)]

-----------------------------------------------------------------------------
(* parse_excluded_shipping_methods and the merge of get_excluded_shipping_data *)

ExcludedShippingMethod(id, reason) == [id |-> id, reason |-> reason]

HasKey(map, id) == \E i \in DOMAIN map : map[i].id = id

\* excluded_methods_map[method_id].append(method) on a defaultdict(list)
defaultdict_append_no_grouping(map, id, method) ==
    Append(map, [id |-> id, methods |-> <<method>>])

defaultdict_append_new_key_first(map, id, method) ==
    IF HasKey(map, id)
    THEN [i \in DOMAIN map |->
            IF map[i].id = id
            THEN [map[i] EXCEPT !.methods = Append(@, method)]
            ELSE map[i]]
    ELSE <<[id |-> id, methods |-> <<method>>]>> \o map

defaultdict_append(map, id, method) ==
    IF HasKey(map, id)
    THEN [i \in DOMAIN map |->
            IF map[i].id = id
            THEN [map[i] EXCEPT !.methods = Append(@, method)]
            ELSE map[i]]
    ELSE Append(map, [id |-> id, methods |-> <<method>>])

RECURSIVE parse_loop(_, _, _)
parse_loop(excluded_methods, i, map) ==
    IF i > Len(excluded_methods) THEN map
    ELSE LET method_id == excluded_methods[i].id
         IN  parse_loop(excluded_methods, i + 1,
                 defaultdict_append(map, method_id,
                     ExcludedShippingMethod(method_id, excluded_methods[i].reason)))

parse_excluded_shipping_methods(excluded_methods) ==
    parse_loop(excluded_methods, 1, <<>>)

RECURSIVE gather_previous(_, _, _)
gather_previous(previous_value, i, map) ==
    IF i > Len(previous_value) THEN map
    ELSE gather_previous(previous_value, i + 1,
             defaultdict_append(map, previous_value[i].id, previous_value[i]))

\* `if m.reason`
Truthy(reason) == reason # None /\ reason[1] # <<>>

RECURSIVE join_loop(_, _, _, _)
join_loop(sep, strs, i, acc) ==
    IF i > Len(strs) THEN acc
    ELSE join_loop(sep, strs, i + 1, acc \o sep \o strs[i])

\* sep.join(strs)
join_no_separator(sep, strs) ==
    IF strs = <<>> THEN <<>> ELSE join_loop(<<>>, strs, 2, strs[1])

join(sep, strs) ==
    IF strs = <<>> THEN <<>> ELSE join_loop(sep, strs, 2, strs[1])

merged_reason_empty_string(methods) ==
    LET kept == SelectSeq(methods, LAMBDA m : Truthy(m.reason))
        reasons == [i \in DOMAIN kept |-> kept[i].reason[1]]
    IN  Some(join(<<" ">>, reasons))

\* reason = None; if reasons := [...]: reason = " ".join(reasons)
merged_reason(methods) ==
    LET kept == SelectSeq(methods, LAMBDA m : Truthy(m.reason))
        reasons == [i \in DOMAIN kept |-> kept[i].reason[1]]
    IN  IF reasons # <<>> THEN Some(join(<<" ">>, reasons)) ELSE None

unique_by_id(map) ==
    [i \in DOMAIN map |->
        ExcludedShippingMethod(map[i].id, merged_reason(map[i].methods))]

\* The tail of get_excluded_shipping_data, from the fetched map on.
merge_previous(excluded_methods_map, previous_value) ==
    unique_by_id(gather_previous(previous_value, 1, excluded_methods_map))

-----------------------------------------------------------------------------
(* Inputs: webhook responses (parsed JSON, or a falsy value on failure)    *)
(* and the exclusions of the previous plugins.                             *)

IdStr(s) == [kind |-> "str", val |-> s]
IdAbsent == [kind |-> "absent", val |-> <<>>]
IdNumber == [kind |-> "number", val |-> <<>>]

ReasonStr(s) == [kind |-> "str", val |-> s]
ReasonAbsent == [kind |-> "absent", val |-> <<>>]
ReasonNull == [kind |-> "null", val |-> <<>>]

MethodData(id, reason) == [obj |-> TRUE, id |-> id, reason |-> reason]
NotAnObject == [obj |-> FALSE, id |-> IdAbsent, reason |-> ReasonAbsent]

SM5 == to_global_id("ShippingMethod", <<"5">>)
APP9 == to_shipping_app_id("1", <<"9">>)
ORDER6 == to_global_id("Order", <<"6">>)
NoColon == b64encode(<<"ShippingMethod5">>)
NotBase64 == <<"5">>

NoMethods == [kind |-> "absent", items |-> <<>>]
Response(kind, em) == [kind |-> kind, em |-> em]
ResponseOf(items) == Response("object", [kind |-> "list", items |-> items])

\* trigger_webhook_sync returned None (timeout, transport failure).
ResponseNone == Response("none", NoMethods)
\* An empty JSON object: falsy as well.
ResponseEmpty == Response("empty", NoMethods)
\* A truthy JSON value that is not an object.
ResponseNotObject == Response("nonobject", NoMethods)
ResponseNoKey == Response("object", NoMethods)
ResponseNullMethods == Response("object", [kind |-> "null", items |-> <<>>])

ResponseA ==
    ResponseOf(<<MethodData(IdStr(SM5), ReasonStr(<<"x">>)),
                 MethodData(IdStr(ORDER6), ReasonStr(<<"x">>)),
                 MethodData(IdStr(APP9), ReasonAbsent)>>)
ResponseB == ResponseOf(<<MethodData(IdStr(SM5), ReasonStr(<<"y">>))>>)
ResponseC ==
    ResponseOf(<<MethodData(IdAbsent, ReasonStr(<<"x">>)),
                 MethodData(IdStr(APP9), ReasonNull)>>)
ResponseD ==
    ResponseOf(<<MethodData(IdStr(NotBase64), ReasonStr(<<"x">>)),
                 MethodData(IdNumber, ReasonAbsent),
                 NotAnObject,
                 MethodData(IdStr(NoColon), ReasonStr(<<"y">>))>>)

Responses ==
    {ResponseNone, ResponseEmpty, ResponseNotObject, ResponseNoKey,
     ResponseNullMethods, ResponseA, ResponseB, ResponseC, ResponseD}

Unset == Response("unset", NoMethods)

PreviousMethods ==
    {ExcludedShippingMethod(<<"5">>, Some(<<"p">>)),
     ExcludedShippingMethod(<<"7">>, None),
     ExcludedShippingMethod(<<"7">>, Some(<<>>))}

RECURSIVE SeqsUpTo(_, _)
SeqsUpTo(S, n) ==
    IF n = 0 THEN {<<>>}
    ELSE LET shorter == SeqsUpTo(S, n - 1)
         IN  shorter \cup {Append(q, x) : q \in shorter, x \in S}

PreviousValues == SeqsUpTo(PreviousMethods, MaxPrevious)

\* The registry: event type n has the n subscribed webhooks 1..n, in order.
get_webhooks_for_event(event_type) == [i \in 1..event_type |-> i]

-----------------------------------------------------------------------------
(* get_excluded_shipping_methods_or_fetch and get_excluded_shipping_data   *)

VARIABLES
    cache,            \* CacheStore slot under cache_key: None or <<[payload, results]>>
    expired,          \* the payload of the entry that expired last, 0 once an
                      \* entry has been written again (history)
    failure_cached,   \* the payload last written by a call all of whose
                      \* webhooks failed, 0 once the cache has expired
                      \* (history, recorded under SpecFailure only)
    provenance,       \* the payloads the webhooks were called with to produce
                      \* the results held by cache (history)
    pc,               \* per call: "idle", "fetch", "done", "raised"
    event_type,       \* per call: argument
    previous_value,   \* per call: argument, from its first read on
    payload,          \* per call: payload_fun(), 0 while not evaluated
    payload_calls,    \* per call: number of evaluations of payload_fun
    lookup,           \* per call: what cache.get found: "none", "match" (an
                      \* entry with the fresh payload), "mismatch" (history)
    idx,              \* per call: position of the for loop over webhooks
    excluded_methods, \* per call: the list accumulated by the loop, or the
                      \* list taken from cached_data
    invoked,          \* per call: the trigger_webhook_sync calls made (history)
    response_data,    \* per call: the last webhook response
    cache_writes,     \* per call: number of cache.set calls (history)
    cache_error,      \* per call: the cache operation that raised, "none" if none
    origin,           \* per call: provenance of the cached results returned (history)
    result            \* per call: the returned list

vars == <<cache, expired, failure_cached, provenance, pc, event_type, previous_value, payload,
          payload_calls, lookup, idx, excluded_methods, invoked, response_data,
          cache_writes, cache_error, origin, result>>

Init ==
    /\ cache = None
    /\ expired = 0
    /\ failure_cached = 0
    /\ provenance = {}
    /\ pc = [c \in Calls |-> "idle"]
    /\ event_type = [c \in Calls |-> 0]
    /\ previous_value = [c \in Calls |-> <<>>]
    /\ payload = [c \in Calls |-> 0]
    /\ payload_calls = [c \in Calls |-> 0]
    /\ lookup = [c \in Calls |-> "unset"]
    /\ idx = [c \in Calls |-> 1]
    /\ excluded_methods = [c \in Calls |-> <<>>]
    /\ invoked = [c \in Calls |-> <<>>]
    /\ response_data = [c \in Calls |-> Unset]
    /\ cache_writes = [c \in Calls |-> 0]
    /\ cache_error = [c \in Calls |-> "none"]
    /\ origin = [c \in Calls |-> {}]
    /\ result = [c \in Calls |-> <<>>]

\* `if webhooks:`
webhooks_truthy_always(webhooks) == TRUE

webhooks_truthy(webhooks) == webhooks # <<>>

\* `if cached_data:` and `if payload == cached_payload:`
\* `if cached_data` read as a test of the stored list
cache_hit_nonempty_results(cached_data, fresh_payload) ==
    /\ cached_data # None
    /\ cached_data[1].results # <<>>
    /\ cached_data[1].payload = fresh_payload

cache_hit_key_only(cached_data, fresh_payload) == cached_data # None

cache_hit_negated(cached_data, fresh_payload) ==
    cached_data # None /\ fresh_payload # cached_data[1].payload

cache_hit(cached_data, fresh_payload) ==
    cached_data # None /\ fresh_payload = cached_data[1].payload

\* `if response_data:`
response_truthy(response) == response.kind \notin {"none", "empty"}

\* The body of the for loop for one response.
fetch_step_abort_on_failure(methods, response) ==
    IF ~response_truthy(response)
    THEN [raised |-> TRUE, excluded_methods |-> methods]
    ELSE LET r == get_excluded_shipping_methods_from_response(response)
         IN  [raised |-> r.raised, excluded_methods |-> methods \o r.value]

fetch_step_prepend(methods, response) ==
    IF ~response_truthy(response)
    THEN [raised |-> FALSE, excluded_methods |-> methods]
    ELSE LET r == get_excluded_shipping_methods_from_response(response)
         IN  [raised |-> r.raised, excluded_methods |-> r.value \o methods]

fetch_step(methods, response) ==
    IF ~response_truthy(response)
    THEN [raised |-> FALSE, excluded_methods |-> methods]
    ELSE LET r == get_excluded_shipping_methods_from_response(response)
         IN  [raised |-> r.raised, excluded_methods |-> methods \o r.value]

\* cache.set(cache_key, value, ttl) on the slot of cache_key
\* A write that stores the payload and the results apart and loses the
\* second half: the new payload beside the results already stored.
cache_store_set_torn(slot, value) ==
    IF slot = None THEN Some(value)
    ELSE Some([payload |-> value.payload, results |-> slot[1].results])

cache_add(slot, value) == IF slot = None THEN Some(value) ELSE slot

cache_store_set(slot, value) == Some(value)

\* What cache.get found, against the fresh payload.
Found(slot, fresh_payload) ==
    IF slot = None THEN "none"
    ELSE IF slot[1].payload = fresh_payload THEN "match" ELSE "mismatch"

\* A call starts: registry lookup, payload_fun, cache.get.  With no
\* subscriber or on a cache hit it merges previous_value and returns at
\* once; otherwise it enters the loop.  previous_value is read by the merge
\* only (lines 111-112), so a call that enters the loop takes its value in
\* cache_set, where it is first read (pv is then fixed to <<>> here, so
\* that the step is taken once and not once per value of pv).
get_excluded_shipping_data(c, e, pv, p) ==
    /\ pc[c] = "idle"
    /\ event_type' = [event_type EXCEPT ![c] = e]
    /\ IF webhooks_truthy(get_webhooks_for_event(e))
       THEN /\ payload' = [payload EXCEPT ![c] = p]
            /\ payload_calls' = [payload_calls EXCEPT ![c] = 1]
            /\ lookup' = [lookup EXCEPT ![c] = Found(cache, p)]
            /\ IF cache_hit(cache, p)
               THEN /\ pc' = [pc EXCEPT ![c] = "done"]
                    /\ origin' = [origin EXCEPT ![c] = provenance]
                    /\ excluded_methods' =
                          [excluded_methods EXCEPT ![c] = cache[1].results]
                    /\ previous_value' = [previous_value EXCEPT ![c] = pv]
                    /\ result' = [result EXCEPT ![c] =
                          merge_previous(
                              parse_excluded_shipping_methods(cache[1].results),
                              pv)]
               ELSE /\ pc' = [pc EXCEPT ![c] = "fetch"]
                    /\ pv = <<>>
                    /\ UNCHANGED <<origin, previous_value, result,
                                   excluded_methods>>
       ELSE /\ pc' = [pc EXCEPT ![c] = "done"]
            /\ previous_value' = [previous_value EXCEPT ![c] = pv]
            /\ result' = [result EXCEPT ![c] = merge_previous(<<>>, pv)]
            /\ UNCHANGED <<payload, payload_calls, lookup, origin,
                           excluded_methods>>
    /\ UNCHANGED <<cache, expired, failure_cached, provenance, idx, invoked,
                   response_data, cache_writes, cache_error>>

\* `for webhook in webhooks`: the webhook of iteration i
next_webhook_reversed(webhooks, i) == webhooks[Len(webhooks) + 1 - i]

next_webhook(webhooks, i) == webhooks[i]

\* One iteration of the loop: the next webhook is called and answers.
trigger_webhook_sync(c, response) ==
    /\ pc[c] = "fetch"
    /\ idx[c] <= Len(get_webhooks_for_event(event_type[c]))
    /\ LET webhook == next_webhook(get_webhooks_for_event(event_type[c]), idx[c])
           step == fetch_step(excluded_methods[c], response)
       IN  /\ invoked' = [invoked EXCEPT ![c] =
                 Append(@, [app |-> webhook, payload |-> payload[c],
                            answered |-> response_truthy(response)])]
           /\ response_data' = [response_data EXCEPT ![c] = response]
           /\ excluded_methods' = [excluded_methods EXCEPT ![c] = step.excluded_methods]
           /\ IF step.raised
              THEN /\ pc' = [pc EXCEPT ![c] = "raised"]
                   /\ idx' = idx
              ELSE /\ pc' = pc
                   /\ idx' = [idx EXCEPT ![c] = @ + 1]
    /\ UNCHANGED <<cache, expired, failure_cached, provenance, event_type,
                   previous_value, payload, payload_calls, lookup,
                   cache_writes, cache_error, origin, result>>

\* The tuple (payload, excluded_methods) of line 79; previous stands for
\* the previous_value of the call, which is not part of it.
cache_entry_with_previous(fresh_payload, methods, previous) ==
    [payload |-> fresh_payload, results |-> methods \o previous]

cache_entry(fresh_payload, methods, previous) ==
    [payload |-> fresh_payload, results |-> methods]

\* After the loop: cache.set, then the merge and the return.
cache_set(c, pv) ==
    /\ pc[c] = "fetch"
    /\ idx[c] > Len(get_webhooks_for_event(event_type[c]))
    /\ cache' = cache_store_set(cache,
                     cache_entry(payload[c], excluded_methods[c], pv))
    /\ expired' = 0
    /\ provenance' = {invoked[c][i].payload : i \in DOMAIN invoked[c]}
    /\ cache_writes' = [cache_writes EXCEPT ![c] = @ + 1]
    /\ previous_value' = [previous_value EXCEPT ![c] = pv]
    /\ result' = [result EXCEPT ![c] =
          merge_previous(parse_excluded_shipping_methods(excluded_methods[c]),
                         pv)]
    /\ pc' = [pc EXCEPT ![c] = "done"]
    /\ UNCHANGED <<event_type, payload, payload_calls, lookup, idx,
                   excluded_methods, invoked, response_data, cache_error,
                   origin>>

\* The caller has taken the result (or the exception): the frame is gone.
call_returns(c) ==
    /\ pc[c] \in {"done", "raised"}
    /\ pc' = [pc EXCEPT ![c] = "idle"]
    /\ event_type' = [event_type EXCEPT ![c] = 0]
    /\ previous_value' = [previous_value EXCEPT ![c] = <<>>]
    /\ payload' = [payload EXCEPT ![c] = 0]
    /\ payload_calls' = [payload_calls EXCEPT ![c] = 0]
    /\ lookup' = [lookup EXCEPT ![c] = "unset"]
    /\ idx' = [idx EXCEPT ![c] = 1]
    /\ excluded_methods' = [excluded_methods EXCEPT ![c] = <<>>]
    /\ invoked' = [invoked EXCEPT ![c] = <<>>]
    /\ response_data' = [response_data EXCEPT ![c] = Unset]
    /\ cache_writes' = [cache_writes EXCEPT ![c] = 0]
    /\ cache_error' = [cache_error EXCEPT ![c] = "none"]
    /\ origin' = [origin EXCEPT ![c] = {}]
    /\ result' = [result EXCEPT ![c] = <<>>]
    /\ UNCHANGED <<cache, expired, failure_cached, provenance>>

\* The entry outlives its TTL (CACHE_EXCLUDED_SHIPPING_TIME).
cache_expire ==
    /\ cache # None
    /\ cache' = None
    /\ expired' = cache[1].payload
    /\ provenance' = {}
    /\ UNCHANGED <<pc, event_type, previous_value, payload, payload_calls,
                   lookup, idx, excluded_methods, invoked, response_data,
                   cache_writes, cache_error, origin, result>>

\* One request thread issuing calls one after the other.
Worker == 1

Next ==
    \/ \E e \in EventTypes, pv \in PreviousValues, p \in Payloads :
          get_excluded_shipping_data(Worker, e, pv, p)
    \/ \E response \in Responses : trigger_webhook_sync(Worker, response)
    \/ \E pv \in PreviousValues :
          cache_set(Worker, pv) /\ UNCHANGED failure_cached
    \/ call_returns(Worker)
    \/ cache_expire /\ UNCHANGED failure_cached

Spec == Init /\ [][Next]_vars

-----------------------------------------------------------------------------
(* The same calls with a cache store that can be unavailable: cache.get    *)
(* and cache.set may raise. Lines 60 and 79 are in no try block, and       *)
(* neither is the call of lines 106-108.                                   *)

\* cache.get raises: the exception leaves get_excluded_shipping_data after
\* the payload has been computed and before any webhook is invoked.
cache_get_raises(c, e, p) ==
    /\ pc[c] = "idle"
    /\ webhooks_truthy(get_webhooks_for_event(e))
    /\ event_type' = [event_type EXCEPT ![c] = e]
    /\ payload' = [payload EXCEPT ![c] = p]
    /\ payload_calls' = [payload_calls EXCEPT ![c] = 1]
    /\ cache_error' = [cache_error EXCEPT ![c] = "get"]
    /\ pc' = [pc EXCEPT ![c] = "raised"]
    /\ UNCHANGED <<cache, expired, failure_cached, provenance, previous_value,
                   lookup, idx, excluded_methods, invoked, response_data,
                   cache_writes, origin, result>>

\* cache.set raises after the loop: nothing is stored and nothing is
\* returned.
cache_set_raises(c) ==
    /\ pc[c] = "fetch"
    /\ idx[c] > Len(get_webhooks_for_event(event_type[c]))
    /\ cache_error' = [cache_error EXCEPT ![c] = "set"]
    /\ pc' = [pc EXCEPT ![c] = "raised"]
    /\ UNCHANGED <<cache, expired, failure_cached, provenance, event_type,
                   previous_value, payload, payload_calls, lookup, idx,
                   excluded_methods, invoked, response_data, cache_writes,
                   origin, result>>

NextDown ==
    \/ Next
    \/ \E e \in EventTypes, p \in Payloads : cache_get_raises(Worker, e, p)
    \/ cache_set_raises(Worker)

SpecDown == Init /\ [][NextDown]_vars

-----------------------------------------------------------------------------
(* The calls of Spec with a record of the failures that were cached:       *)
(* failure_cached is the payload last written by a call all of whose       *)
(* webhooks answered a falsy value, until the cache expires.               *)

FailureResponses == {ResponseNone, ResponseEmpty, ResponseB}

cache_set_recorded(c, pv) ==
    /\ cache_set(c, pv)
    /\ failure_cached' =
          IF \A i \in DOMAIN invoked[c] : ~invoked[c][i].answered
          THEN payload[c] ELSE failure_cached

cache_expire_recorded ==
    /\ cache_expire
    /\ failure_cached' = 0

NextFailure ==
    \/ \E e \in EventTypes, pv \in PreviousValues, p \in Payloads :
          get_excluded_shipping_data(Worker, e, pv, p)
    \/ \E response \in FailureResponses : trigger_webhook_sync(Worker, response)
    \/ \E pv \in PreviousValues : cache_set_recorded(Worker, pv)
    \/ call_returns(Worker)
    \/ cache_expire_recorded

SpecFailure == Init /\ [][NextFailure]_vars

-----------------------------------------------------------------------------
(* Concurrent calls on one cache_key within one TTL period: every call of  *)
(* Calls takes its steps interleaved with the others'. The event has two   *)
(* subscribed webhooks and the payload is one of two; the answers are one  *)
(* falsy value, one list and one value that makes the call raise;          *)
(* previous_value is empty.                                                *)

ConcEventTypes == {2}

ConcPayloads == {1, 2}

ConcResponses == {ResponseNone, ResponseB, ResponseNullMethods}

ConcPrevious == {<<>>}

NextConc ==
    \E c \in Calls :
        \/ \E e \in ConcEventTypes, pv \in ConcPrevious, p \in ConcPayloads :
              get_excluded_shipping_data(c, e, pv, p)
        \/ \E response \in ConcResponses : trigger_webhook_sync(c, response)
        \/ \E pv \in ConcPrevious :
              cache_set(c, pv) /\ UNCHANGED failure_cached
        \/ call_returns(c)

SpecConc == Init /\ [][NextConc]_vars

-----------------------------------------------------------------------------
(* get_excluded_shipping_methods_from_response on its own: the response is *)
(* drawn from every batch of at most MaxEntries entries.                   *)

ParserEntries ==
    {MethodData(IdStr(SM5), ReasonStr(<<"x">>)),
     MethodData(IdStr(APP9), ReasonAbsent),
     MethodData(IdStr(ORDER6), ReasonStr(<<"x">>)),
     MethodData(IdAbsent, ReasonStr(<<"x">>)),
     MethodData(IdStr(NotBase64), ReasonStr(<<"x">>)),
     MethodData(IdStr(NoColon), ReasonNull),
     MethodData(IdNumber, ReasonStr(<<"x">>)),
     NotAnObject}

ParserResponses == {ResponseOf(items) : items \in SeqsUpTo(ParserEntries, MaxEntries)}

InitParser ==
    /\ cache = None
    /\ expired = 0
    /\ failure_cached = 0
    /\ provenance = {}
    /\ pc = [c \in Calls |-> "idle"]
    /\ event_type = [c \in Calls |-> 0]
    /\ previous_value = [c \in Calls |-> <<>>]
    /\ payload = [c \in Calls |-> 0]
    /\ payload_calls = [c \in Calls |-> 0]
    /\ lookup = [c \in Calls |-> "unset"]
    /\ idx = [c \in Calls |-> 1]
    /\ excluded_methods = [c \in Calls |-> <<>>]
    /\ invoked = [c \in Calls |-> <<>>]
    /\ \E response \in ParserResponses :
          response_data = [c \in Calls |-> IF c = Worker THEN response ELSE Unset]
    /\ cache_writes = [c \in Calls |-> 0]
    /\ cache_error = [c \in Calls |-> "none"]
    /\ origin = [c \in Calls |-> {}]
    /\ result = [c \in Calls |-> <<>>]

\* The function is applied to response_data[c]; its return value is left in
\* excluded_methods[c].
parse_response(c) ==
    /\ pc[c] = "idle"
    /\ response_data[c] # Unset
    /\ LET r == get_excluded_shipping_methods_from_response(response_data[c])
       IN  /\ excluded_methods' = [excluded_methods EXCEPT ![c] = r.value]
           /\ pc' = [pc EXCEPT ![c] = IF r.raised THEN "raised" ELSE "done"]
    /\ UNCHANGED <<cache, expired, failure_cached, provenance, event_type,
                   previous_value, payload, payload_calls, lookup, idx,
                   invoked, response_data, cache_writes, cache_error, origin,
                   result>>

NextParser == parse_response(Worker)

SpecParser == InitParser /\ [][NextParser]_vars

-----------------------------------------------------------------------------
(* What the specification expects, stated without the code's loops.        *)

Range(s) == {s[i] : i \in DOMAIN s}

Ids(methods) == [i \in DOMAIN methods |-> methods[i].id]

Webhooks(c) == get_webhooks_for_event(event_type[c])

\* The distinct elements of ids, each at the place of its first occurrence.
RECURSIVE FirstSeen(_)
FirstSeen(ids) ==
    IF ids = <<>> THEN <<>>
    ELSE LET front == FirstSeen(SubSeq(ids, 1, Len(ids) - 1))
             last == ids[Len(ids)]
         IN  IF last \in Range(front) THEN front ELSE Append(front, last)

NonEmptyReasons(contributions, id) ==
    LET HasReason(m) == m.id = id /\ m.reason # None /\ m.reason # Some(<<>>)
        mine == SelectSeq(contributions, HasReason)
    IN  [i \in DOMAIN mine |-> mine[i].reason[1]]

RECURSIVE SpaceJoined(_)
SpaceJoined(strs) ==
    IF Len(strs) = 1 THEN strs[1]
    ELSE strs[1] \o <<" ">> \o SpaceJoined(Tail(strs))

ExpectedReason(contributions, id) ==
    LET reasons == NonEmptyReasons(contributions, id)
    IN  IF reasons = <<>> THEN None ELSE Some(SpaceJoined(reasons))

\* merge(fetched, previous): webhook contributions first, then previous_value.
ExpectedMerge(fetched, previous) ==
    LET contributions == fetched \o previous
        ids == FirstSeen(Ids(contributions))
    IN  [i \in DOMAIN ids |->
            [id |-> ids[i], reason |-> ExpectedReason(contributions, ids[i])]]

Falsy(response) == response.kind \in {"none", "empty"}

HasMethodList(response) == response.kind = "object" /\ response.em.kind = "list"

Decodes(method_data) ==
    /\ method_data.obj
    /\ method_data.id.kind = "str"
    /\ from_global_id(method_data.id.val).ok

TypeTag(method_data) == from_global_id(method_data.id.val).typename

RawId(method_data) == from_global_id(method_data.id.val).id

Kept(method_data) ==
    Decodes(method_data) /\ TypeTag(method_data) \in {<<"app">>, <<"ShippingMethod">>}

NormalizedId(method_data) ==
    IF TypeTag(method_data) = <<"app">> THEN method_data.id.val
    ELSE RawId(method_data)

ExpectedReasonField(method_data) ==
    IF method_data.reason.kind = "str" THEN Some(method_data.reason.val)
    ELSE IF method_data.reason.kind = "null" THEN None
    ELSE Some(<<>>)

\* The normalized exclusions one response contributes.
ExpectedEntries(response) ==
    IF HasMethodList(response)
    THEN LET kept == SelectSeq(response.em.items, Kept)
         IN  [i \in DOMAIN kept |->
                 [id |-> NormalizedId(kept[i]),
                  reason |-> ExpectedReasonField(kept[i])]]
    ELSE <<>>

\* Steps of one call.
StartStep(c) == pc[c] = "idle" /\ pc'[c] # "idle"

TriggerStep(c) == pc[c] = "fetch" /\ Len(invoked'[c]) = Len(invoked[c]) + 1

CompletesFetch(c) == pc[c] = "fetch" /\ pc'[c] = "done"

AllFailed(c) == \A i \in DOMAIN invoked[c] : ~invoked[c][i].answered

InvokedApps(c) == [i \in DOMAIN invoked[c] |-> invoked[c][i].app]

-----------------------------------------------------------------------------
(* The claims.                                                             *)

\* C1: a call with at least one subscribed webhook that finds, under
\* cache_key, an entry whose stored payload equals the fresh payload invokes
\* no webhook and returns the merge of the stored results with
\* previous_value.
C1_CacheHit ==
    [][\A c \in Calls :
          /\ (/\ StartStep(c)
              /\ Len(get_webhooks_for_event(event_type'[c])) >= 1
              /\ cache # None
              /\ cache[1].payload = payload'[c])
             => /\ pc'[c] = "done"
                /\ invoked'[c] = <<>>
                /\ result'[c] =
                      ExpectedMerge(cache[1].results, previous_value'[c])
          /\ (pc[c] = "done" /\ lookup[c] = "match") => invoked'[c] = <<>>
      ]_vars

C1_Witness ==
    \E c \in Calls :
        /\ pc[c] = "done"
        /\ lookup[c] = "match"
        /\ cache # None
        /\ cache[1].results # <<>>
        /\ previous_value[c] # <<>>
        /\ Len(result[c]) >= 2

\* C2: a call with at least one subscribed webhook that finds no entry, or
\* an entry with another payload, invokes every subscribed webhook exactly
\* once, in registry order, whatever the webhooks return.
C2_EveryWebhookInvokedOnce ==
    \A c \in Calls :
        (pc[c] \in {"done", "raised"} /\ lookup[c] \in {"none", "mismatch"})
            => InvokedApps(c) = Webhooks(c)

\* C3: a call that invoked webhooks and completes leaves under cache_key
\* exactly (fresh payload, the normalized exclusions of all truthy responses
\* in registry order), whatever entry was there before.
C3_CacheOverwrite ==
    [][\A c \in Calls :
          /\ (pc[c] = "idle" /\ pc'[c] = "fetch") => excluded_methods'[c] = <<>>
          /\ (TriggerStep(c) /\ pc'[c] # "raised")
                => excluded_methods'[c] =
                      excluded_methods[c] \o ExpectedEntries(response_data'[c])
          /\ CompletesFetch(c)
                => /\ InvokedApps(c) = Webhooks(c)
                   /\ cache' = Some([payload |-> payload[c],
                                     results |-> excluded_methods[c]])
      ]_vars

C3_Witness ==
    \E c \in Calls :
        /\ pc[c] = "done"
        /\ lookup[c] = "mismatch"
        /\ Len(invoked[c]) = 2
        /\ Len(excluded_methods[c]) >= 3
        /\ cache = Some([payload |-> payload[c], results |-> excluded_methods[c]])

\* C4: the exclusions a call returns were produced by webhook calls made
\* with that call's own payload, also when they are taken from the cache;
\* an entry stored with another payload is never reused.
C4_CacheValidity ==
    \A c \in Calls :
        (pc[c] = "done" /\ Len(Webhooks(c)) >= 1)
            => /\ (IF origin[c] # {} THEN origin[c]
                   ELSE {invoked[c][i].payload : i \in DOMAIN invoked[c]})
                  = {payload[c]}
               /\ lookup[c] = "mismatch"
                     => origin[c] = {} /\ InvokedApps(c) = Webhooks(c)

C4_Witness ==
    \E c \in Calls :
        /\ pc[c] = "done"
        /\ origin[c] = {payload[c]}
        /\ payload[c] = 2
        /\ invoked[c] = <<>>
        /\ result[c] # <<>>

\* C5: with no subscribed webhook payload_fun is never evaluated, and the
\* output is the merge of an empty fetched map with previous_value.
C5_ZeroSubscribers ==
    \A c \in Calls :
        (pc[c] # "idle" /\ Webhooks(c) = <<>>)
            => /\ payload_calls[c] = 0
               /\ payload[c] = 0
               /\ pc[c] = "done"
               /\ invoked[c] = <<>>
               /\ result[c] = ExpectedMerge(<<>>, previous_value[c])

C5_Witness ==
    \E c \in Calls :
        /\ pc[c] = "done"
        /\ Webhooks(c) = <<>>
        /\ Len(previous_value[c]) = 2
        /\ result[c] # <<>>

\* C6: on a miss a falsy response contributes nothing and does not stop the
\* loop; the result is built from the truthy responses in registry order,
\* and if every webhook fails it is the merge of previous_value alone, with
\* no error.
C6_FailOpen ==
    [][\A c \in Calls :
          /\ (TriggerStep(c) /\ Falsy(response_data'[c]))
                => /\ pc'[c] = "fetch"
                   /\ idx'[c] = idx[c] + 1
                   /\ excluded_methods'[c] = excluded_methods[c]
          /\ (TriggerStep(c) /\ ~Falsy(response_data'[c]) /\ pc'[c] # "raised")
                => /\ idx'[c] = idx[c] + 1
                   /\ excluded_methods'[c] =
                         excluded_methods[c] \o ExpectedEntries(response_data'[c])
          /\ CompletesFetch(c)
                => /\ InvokedApps(c) = Webhooks(c)
                   /\ result'[c] =
                         ExpectedMerge(excluded_methods[c], previous_value'[c])
                   /\ AllFailed(c)
                         => result'[c] = ExpectedMerge(<<>>, previous_value'[c])
          /\ (AllFailed(c) /\ idx[c] > Len(Webhooks(c)) /\ pc[c] = "fetch")
                => pc'[c] \in {"fetch", "done"}
      ]_vars

C6_Witness ==
    \E c \in Calls :
        /\ pc[c] = "done"
        /\ Len(invoked[c]) = 2
        /\ ~invoked[c][1].answered
        /\ invoked[c][2].answered
        /\ excluded_methods[c] # <<>>
        /\ Len(result[c]) >= 2

\* C7: no two entries of a returned list share an id.
C7_UniqueById ==
    \A c \in Calls :
        pc[c] = "done"
            => \A i, j \in DOMAIN result[c] :
                  result[c][i].id = result[c][j].id => i = j

C7_Witness ==
    \E c \in Calls :
        /\ pc[c] = "done"
        /\ Len(SelectSeq(excluded_methods[c], LAMBDA m : m.id = <<"5">>)) >= 2
        /\ \E i \in DOMAIN previous_value[c] : previous_value[c][i].id = <<"5">>
        /\ \E i \in DOMAIN excluded_methods[c] : excluded_methods[c][i].id = APP9

\* C8: the reason of each id of the output is the single-space join of the
\* non-empty reasons contributed for it, webhooks first and previous_value
\* after, and None when there is no non-empty reason.
C8_ReasonMerging ==
    \A c \in Calls :
        pc[c] = "done"
            => \A k \in DOMAIN result[c] :
                  result[c][k].reason =
                      ExpectedReason(excluded_methods[c] \o previous_value[c],
                                     result[c][k].id)

C8_Witness ==
    \E c \in Calls :
        /\ pc[c] = "done"
        /\ \E k \in DOMAIN result[c] :
              /\ result[c][k].id = <<"5">>
              /\ result[c][k].reason = Some(<<"x", " ", "y", " ", "p">>)
        /\ \E k \in DOMAIN result[c] :
              /\ result[c][k].id = APP9
              /\ result[c][k].reason = None

\* C9: the output lists each id at the place of its first appearance: the
\* ids of the webhook responses (or of the cached results) first, then the
\* ids only previous_value has.
C9_OutputOrder ==
    \A c \in Calls :
        pc[c] = "done"
            => Ids(result[c]) =
                  FirstSeen(Ids(excluded_methods[c]) \o Ids(previous_value[c]))

C9_Witness ==
    \E c \in Calls :
        /\ pc[c] = "done"
        /\ Ids(excluded_methods[c]) = <<<<"5">>, APP9>>
        /\ Ids(previous_value[c]) = <<<<"7">>, <<"5">>>>
        /\ Ids(result[c]) = <<<<"5">>, APP9, <<"7">>>>

\* C10: an entry whose id decodes keeps its whole token as id under the type
\* tag "app", keeps the raw id alone under "ShippingMethod", and is dropped
\* under any other tag, without an error: it reaches neither the result nor
\* the cache.
DroppedIds ==
    UNION {{md.id.val, RawId(md)} :
              md \in {m \in UNION {Range(r.em.items) : r \in Responses} :
                         Decodes(m) /\ ~Kept(m)}}

C10_TypeTagDispatch ==
    [][\A c \in Calls :
          /\ (TriggerStep(c) /\ HasMethodList(response_data'[c]))
                => LET items == response_data'[c].em.items
                       kept == SelectSeq(items, Kept)
                       old == Len(excluded_methods[c])
                   IN  /\ pc'[c] = "fetch"
                       /\ Len(excluded_methods'[c]) = old + Len(kept)
                       /\ \A i \in DOMAIN kept :
                             excluded_methods'[c][old + i].id =
                                 IF TypeTag(kept[i]) = <<"app">>
                                 THEN kept[i].id.val
                                 ELSE RawId(kept[i])
          /\ DroppedIds \cap Range(Ids(result'[c])) = {}
          /\ cache' # None => DroppedIds \cap Range(Ids(cache'[1].results)) = {}
      ]_vars

C10_Witness ==
    \E c \in Calls :
        /\ pc[c] = "done"
        /\ response_data[c] = ResponseA
        /\ Ids(excluded_methods[c]) = <<<<"5">>, APP9>>
        /\ cache # None
        /\ cache[1].results = excluded_methods[c]

\* C11: the parser returns exactly the well-formed entries of a batch, in
\* their original relative order; an entry whose id is missing or does not
\* decode is dropped without an error, and the entries before and after it
\* in the same batch are still returned.
WellFormed(method_data) == Kept(method_data)

C11_MalformedEntriesIsolated ==
    \A c \in Calls :
        (pc[c] # "idle" /\ HasMethodList(response_data[c]))
            => LET items == response_data[c].em.items
                   good == SelectSeq(items, WellFormed)
               IN  /\ pc[c] = "done"
                   /\ Len(excluded_methods[c]) = Len(good)
                   /\ \A i \in DOMAIN good :
                         excluded_methods[c][i] =
                             [id |-> NormalizedId(good[i]),
                              reason |-> ExpectedReasonField(good[i])]

C11_Witness ==
    \E c \in Calls :
        /\ pc[c] = "done"
        /\ response_data[c] =
              ResponseOf(<<MethodData(IdStr(SM5), ReasonStr(<<"x">>)),
                           MethodData(IdAbsent, ReasonStr(<<"x">>)),
                           MethodData(IdStr(APP9), ReasonAbsent)>>)
        /\ excluded_methods[c] =
              <<[id |-> <<"5">>, reason |-> Some(<<"x">>)],
                [id |-> APP9, reason |-> Some(<<>>)]>>

\* C12: whatever a webhook answers (a falsy value, a truthy value that is
\* not an object, an object whose excluded_methods is absent, null or a
\* list, entries that are not objects, ids of any type), the call does not
\* raise: no call ever ends with an exception.
C12_NoFailurePropagates ==
    \A c \in Calls : pc[c] # "raised"

\* C13: a call writes the cache at most once, and only after it has invoked
\* its webhooks; a call served by a cache hit writes nothing and leaves the
\* stored entry as it found it.
C13_CacheWriteCount ==
    [][/\ \A c \in Calls :
             /\ cache_writes'[c] <= 1
             /\ cache_writes'[c] = 1
                   => /\ lookup'[c] \in {"none", "mismatch"}
                      /\ InvokedApps(c) = Webhooks(c)
             /\ lookup'[c] = "match" => cache_writes'[c] = 0
             /\ (StartStep(c) /\ lookup'[c] = "match")
                   => /\ cache' = cache
                      /\ invoked'[c] = <<>>
       /\ (cache' # cache /\ cache' # None)
             => \E c \in Calls :
                   /\ CompletesFetch(c)
                   /\ cache_writes[c] = 0
                   /\ cache_writes'[c] = 1
      ]_vars

C13_Witness ==
    \E c \in Calls :
        /\ pc[c] = "done"
        /\ lookup[c] = "match"
        /\ cache_writes[c] = 0
        /\ invoked[c] = <<>>
        /\ cache = Some([payload |-> payload[c], results |-> excluded_methods[c]])
        /\ excluded_methods[c] # <<>>

\* C14: under every interleaving of calls on one cache_key, each write puts
\* into the cache the writing call's own payload together with the results
\* that call accumulated from its own webhook invocations for that payload;
\* the cache changes by such a write only, so every entry that can be
\* observed is one call's whole pair, never one call's payload beside
\* another call's results, and the entry left is the last writer's.
C14_WholePairLastWriter ==
    [][/\ \A c \in Calls :
             CompletesFetch(c)
                => /\ cache' = Some([payload |-> payload[c],
                                     results |-> excluded_methods[c]])
                   /\ \A i \in DOMAIN invoked[c] :
                         invoked[c][i].payload = payload[c]
                   /\ provenance' = {payload[c]}
       /\ cache' # cache => \E c \in Calls : CompletesFetch(c)
       /\ cache' # None => provenance' = {cache'[1].payload}
      ]_vars

C14_Witness ==
    \E c, d \in Calls :
        /\ c # d
        /\ pc[c] = "done" /\ pc[d] = "done"
        /\ cache_writes[c] = 1 /\ cache_writes[d] = 1
        /\ payload[c] # payload[d]
        /\ excluded_methods[c] # excluded_methods[d]
        /\ cache = Some([payload |-> payload[d], results |-> excluded_methods[d]])
        /\ provenance = {payload[d]}

\* C15: a call whose cache lookup or cache write failed behaves as a cache
\* miss and still returns a result: it does not end with an exception.
C15_CacheFailOpen ==
    \A c \in Calls : cache_error[c] # "none" => pc[c] # "raised"

\* C16: within a call that misses, the cache lookup comes before the first
\* webhook invocation; the webhooks are invoked one at a time in registry
\* order, each after the one before it has returned; the single cache write
\* comes after the last webhook has returned and before the result is
\* returned, and no webhook is invoked after it.
C16_StepOrder ==
    [][\A c \in Calls :
          /\ TriggerStep(c)
                => /\ lookup[c] \in {"none", "mismatch"}
                   /\ cache_writes[c] = 0
                   /\ invoked'[c][Len(invoked'[c])].app =
                          Webhooks(c)[Len(invoked[c]) + 1]
                   /\ SubSeq(invoked'[c], 1, Len(invoked[c])) = invoked[c]
          /\ \A i \in DOMAIN invoked'[c] :
                invoked'[c][i].app = get_webhooks_for_event(event_type'[c])[i]
          /\ cache_writes'[c] # cache_writes[c] /\ cache_writes'[c] # 0
                => /\ InvokedApps(c) = Webhooks(c)
                   /\ pc[c] = "fetch"
                   /\ pc'[c] = "done"
          /\ (pc'[c] = "done" /\ lookup'[c] \in {"none", "mismatch"})
                => cache_writes'[c] = 1
          /\ cache_writes[c] = 1 => invoked'[c] \in {invoked[c], <<>>}
      ]_vars

C16_Witness ==
    \E c \in Calls :
        /\ pc[c] = "done"
        /\ lookup[c] = "mismatch"
        /\ InvokedApps(c) = <<1, 2>>
        /\ cache_writes[c] = 1
        /\ cache = Some([payload |-> payload[c], results |-> excluded_methods[c]])

\* C17: a stored entry leaves the cache only by expiry or by being
\* overwritten by a completing call, never otherwise; once an entry has
\* expired, the next call with the same payload is a miss, goes on to invoke
\* every subscribed webhook again and writes a fresh entry.
ExpiryStep ==
    /\ cache # None
    /\ cache' = None
    /\ UNCHANGED <<pc, invoked, cache_writes, result>>

StartedOnExpired(c) ==
    /\ pc[c] = "fetch"
    /\ lookup[c] = "none"
    /\ expired = payload[c]

C17_ExpiryThenRefetch ==
    [][\A c \in Calls :
          /\ (cache # None /\ cache' # cache)
                => \/ ExpiryStep
                   \/ \E d \in Calls :
                         /\ CompletesFetch(d)
                         /\ cache' = Some([payload |-> payload[d],
                                           results |-> excluded_methods[d]])
          /\ (StartStep(c) /\ Webhooks(c)' # <<>> /\ expired = payload'[c])
                => /\ lookup'[c] = "none"
                   /\ pc'[c] = "fetch"
                   /\ invoked'[c] = <<>>
          /\ StartedOnExpired(c)
                => /\ pc'[c] \in {"fetch", "done"}
                   /\ pc'[c] = "done"
                         => /\ InvokedApps(c) = Webhooks(c)
                            /\ cache_writes'[c] = 1
                            /\ cache' = Some([payload |-> payload[c],
                                              results |-> excluded_methods[c]])
      ]_vars

\* C18 as stated: a miss in which every webhook answered a falsy value
\* leaves (payload, empty list) in the cache, and every later call with the
\* same payload before the cache expires invokes no webhook and returns the
\* merge of its previous_value alone.
C18_FailureCachedUntilExpiry ==
    [][\A c \in Calls :
          /\ (CompletesFetch(c) /\ AllFailed(c))
                => cache' = Some([payload |-> payload[c], results |-> <<>>])
          /\ (StartStep(c) /\ Webhooks(c)' # <<>> /\ failure_cached = payload'[c])
                => /\ pc'[c] = "done"
                   /\ invoked'[c] = <<>>
                   /\ result'[c] = ExpectedMerge(<<>>, previous_value'[c])
      ]_vars

\* C18 amended: a miss in which every webhook answered a falsy value leaves
\* (payload, empty list) in the cache; while that entry is stored, neither
\* expired nor overwritten by a call with another payload, it is a valid
\* hit: every later call with the same payload invokes no webhook, leaves
\* the entry as it is and returns the merge of its previous_value alone.
C18_FailureCachedWhileStored ==
    [][\A c \in Calls :
          /\ (CompletesFetch(c) /\ AllFailed(c))
                => cache' = Some([payload |-> payload[c], results |-> <<>>])
          /\ (/\ StartStep(c)
              /\ Webhooks(c)' # <<>>
              /\ failure_cached = payload'[c]
              /\ cache = Some([payload |-> payload'[c], results |-> <<>>]))
                => /\ pc'[c] = "done"
                   /\ lookup'[c] = "match"
                   /\ invoked'[c] = <<>>
                   /\ cache' = cache
                   /\ result'[c] = ExpectedMerge(<<>>, previous_value'[c])
      ]_vars

C18_Witness ==
    \E c \in Calls :
        /\ pc[c] = "done"
        /\ Webhooks(c) # <<>>
        /\ lookup[c] = "match"
        /\ failure_cached = payload[c]
        /\ cache = Some([payload |-> payload[c], results |-> <<>>])
        /\ invoked[c] = <<>>
        /\ previous_value[c] # <<>>
        /\ result[c] = ExpectedMerge(<<>>, previous_value[c])

\* C19: the entry a call writes is made of its payload and of what its
\* webhooks answered, whatever its previous_value is; nothing of
\* previous_value is ever stored, and merging it leaves the stored entry
\* alone. Every call that hits an entry sees the same stored results, and
\* its output holds exactly the stored ids and the ids of its own
\* previous_value.
C19_PreviousValueNotCached ==
    [][\A c \in Calls :
          /\ CompletesFetch(c)
                => /\ cache' = Some([payload |-> payload[c],
                                     results |-> excluded_methods[c]])
                   /\ result'[c] =
                          ExpectedMerge(excluded_methods[c], previous_value'[c])
          /\ cache' # None => Range(cache'[1].results) \cap PreviousMethods = {}
          /\ (StartStep(c) /\ lookup'[c] = "match")
                => /\ cache' = cache
                   /\ excluded_methods'[c] = cache[1].results
                   /\ result'[c] =
                          ExpectedMerge(cache[1].results, previous_value'[c])
                   /\ Range(Ids(result'[c])) =
                          Range(Ids(cache[1].results))
                              \cup Range(Ids(previous_value'[c]))
      ]_vars

C19_Witness ==
    \E c \in Calls :
        /\ pc[c] = "done"
        /\ lookup[c] = "match"
        /\ <<"7">> \in Range(Ids(previous_value[c]))
        /\ cache # None
        /\ cache[1].results # <<>>
        /\ <<"7">> \notin Range(Ids(cache[1].results))
        /\ <<"7">> \in Range(Ids(result[c]))
        /\ Range(Ids(cache[1].results)) \subseteq Range(Ids(result[c]))

\* C20: two concurrent calls with the same payload that both read the cache
\* before either has written are both misses; each goes on to invoke every
\* subscribed webhook once, so every webhook is invoked twice overall, and
\* each writes the cache; the entry that remains after a write is the
\* writer's, so the last writer's entry is the one left.
\* c is still fetching and d, with the same payload, is fetching or has
\* written; both found the slot empty. The slot is never emptied under
\* SpecConc, so both read it before either wrote, and c is in flight while d
\* is or was.
Racing(c, d) ==
    /\ c # d
    /\ pc[c] = "fetch"
    /\ pc[d] \in {"fetch", "done"}
    /\ lookup[c] = "none" /\ lookup[d] = "none"
    /\ payload[c] = payload[d]

C20_NoCoalescing ==
    [][\A c, d \in Calls :
          Racing(c, d)
             => /\ pc'[c] \in {"fetch", "done"}
                /\ pc'[c] = "done"
                      => /\ InvokedApps(c) = Webhooks(c)
                         /\ cache_writes'[c] = 1
                         /\ cache' = Some([payload |-> payload[c],
                                           results |-> excluded_methods[c]])
                         /\ pc[d] = "done"
                               => /\ cache_writes[d] = 1
                                  /\ Len(invoked[c]) + Len(invoked[d]) =
                                         2 * Len(Webhooks(c))
      ]_vars

====
